---- MODULE Spec2Model ----
(***************************************************************************)
(* Model of the changelog acquisition pipeline of woo-dev-blog-tools       *)
(* (src/fetch-changelog.py): fetch_changelog, fetch_prs_from_github,       *)
(* fetch_pr_description, format_prs_as_changelog and save_changelog.       *)
(*                                                                         *)
(* Text is a sequence of one-character strings.  A URL and a rel="..."     *)
(* link parameter are each one symbol of a Link header's text; the words   *)
(* of a PR-body marker, an HTML entity and the dashes of a comment         *)
(* delimiter are each one symbol of a PR body's text.  The output file is  *)
(* kept as the records handed to the csv writer and as the characters the  *)
(* writer puts on disk.                                                    *)
(***************************************************************************)
EXTENDS Integers, Sequences, FiniteSets, TLC

(***************************************************************************)
(* Bounds of the model.                                                    *)
(***************************************************************************)
MaxTextLen == 7
MaxMilestones == 2
MaxNumber == 2
MaxPages == 3
MaxPageLen == 1
Max403 == 2
MaxIssues == 4
MaxPieces == 3
MaxLabels == 3
MaxRows == 2
MaxNotes == 4
MaxChangelogLen == 5
MaxChunkSize == 3

(***************************************************************************)
(* Program constants.                                                      *)
(***************************************************************************)
RateLimitStatus == 403
OkStatus == 200
SleepSeconds == 60
DefaultMaxVersions == 3
DefaultChunkSize == 4000

(***************************************************************************)
(* Python built-ins on text.                                               *)
(***************************************************************************)
SetMin(S) == CHOOSE m \in S : \A n \in S : m <= n
SetMax(S) == CHOOSE m \in S : \A n \in S : n <= m

\* s[i..] begins with sub
StartsAt(s, sub, i) ==
    /\ i + Len(sub) - 1 <= Len(s)
    /\ \A k \in 1..Len(sub) : s[i + k - 1] = sub[k]

\* str.find from a start index, 1-based; 0 when there is no occurrence
Find(s, sub, from) ==
    LET cand == {i \in from..(Len(s) - Len(sub) + 1) : StartsAt(s, sub, i)}
    IN  IF cand = {} THEN 0 ELSE SetMin(cand)

\* `sub in s`
Contains(sub, s) == Find(s, sub, 1) # 0

\* s[i:] with a 1-based first index
Tail_(s, i) == IF i > Len(s) THEN <<>> ELSE SubSeq(s, i, Len(s))

\* str.split(sep): the parts between non-overlapping occurrences, left to right
RECURSIVE PySplit(_, _)
PySplit(s, sep) ==
    LET i == Find(s, sep, 1)
    IN  IF i = 0 THEN <<s>>
        ELSE <<SubSeq(s, 1, i - 1)>> \o PySplit(Tail_(s, i + Len(sep)), sep)

\* str.strip(chars): drop the characters of chars from both ends
PyStripChars(s, chars) ==
    LET keep == {i \in 1..Len(s) : s[i] \notin chars}
    IN  IF keep = {} THEN <<>> ELSE SubSeq(s, SetMin(keep), SetMax(keep))

Whitespace == {" ", "\n", "\t", "\r"}

\* str.strip()
PyStrip(s) == PyStripChars(s, Whitespace)

\* sep.join(parts)
RECURSIVE PyJoin(_, _)
PyJoin(sep, parts) ==
    IF parts = <<>> THEN <<>>
    ELSE IF Len(parts) = 1 THEN parts[1]
    ELSE parts[1] \o sep \o PyJoin(sep, Tail(parts))

RECURSIVE Flatten(_)
Flatten(ss) == IF ss = <<>> THEN <<>> ELSE ss[1] \o Flatten(Tail(ss))

\* Python's None, and a value that is not None
None == <<>>
Some(x) == <<x>>

\* all sequences over S of length at most n
SeqsUpTo(S, n) == UNION {[1..k -> S] : k \in 0..n}

(***************************************************************************)
(* State.                                                                  *)
(***************************************************************************)
VARIABLES
    entry,              \* "main": the script's __main__; "fetch_changelog": a call of
                        \* fetch_changelog; "save_changelog": a call of save_changelog;
                        \* "orchestrator": main() of update-release-pr-spreadsheet.py;
                        \* "get_all_release_notes", "chunk_changelog": a call of that
                        \* function of update-release-pr-spreadsheet.py
    version,            \* the version argument
    token,              \* whether GITHUB_TOKEN is set
    remote_changelog,   \* the text the raw changelog endpoint serves
    milestones,         \* the list the milestones endpoint serves
    pages,              \* the chain of pages the issues endpoint serves
    env,                \* what the services can do during the run: the responses of
                        \* the milestones and issues endpoints (api), the statuses and
                        \* bodies of the pulls endpoint, the file-system outcomes (fs)
    file,               \* changelogs/{version}.csv: None or Some([header, rows])
    file_before,        \* that file when the run started
    disk,               \* the other files: the paths of the changelogs/*.txt files (txt)
                        \* and the release-posts/*.txt files in glob order (posts)
    orch,               \* the state of update-release-pr-spreadsheet.py: its position,
                        \* its arguments, and what its functions returned
    pc,                 \* position of the run
    stages,             \* the stages entered so far, in order
    milestone_number,   \* None or Some(number)
    http,               \* the HTTP exchanges so far: [endpoint, status]
    next_url,           \* None or Some(url)
    params,             \* "query" (state, milestone, per_page) or "empty"
    page_count,
    all_prs,
    requested,          \* the URLs requested from the issues endpoint, in order
    idx,                \* index in all_prs of the PR format_prs_as_changelog is at
    changelog_rows,
    attempts,           \* requests made for the description of the current PR
    n403,               \* 403 responses received for the current PR
    slept,              \* seconds slept for the current PR
    pr_calls,           \* per finished fetch_pr_description call: [id, requests, n403,
                        \* slept, status, body, returned]
    writes,             \* calls of save_changelog
    log,                \* console messages, in order
    result,             \* "none", or "True" / "False": the value the entry function returned
    exc,                \* "none" or the exception that left the entry function
    exit_code           \* None or Some(status): the process exit status (entry "main")

server == <<remote_changelog, milestones, pages, env, file_before, disk, orch>>
collector == <<milestone_number, http, next_url, params, page_count, all_prs, requested>>
enricher == <<idx, changelog_rows, attempts, n403, slept, pr_calls>>
outcome == <<result, exc, exit_code>>
vars == <<entry, version, token, server, file, pc, stages, collector, enricher,
          writes, log, outcome>>

(***************************************************************************)
(* The inputs: versions, changelog texts, milestone lists, page chains.    *)
(***************************************************************************)
Versions == {<<"9">>, <<"9", "x">>}
TextChars == {"=", " ", "9", "x"}
AllTexts == SeqsUpTo(TextChars, MaxTextLen)
SampleTexts == {<<>>,
                <<"=", " ", "9", " ", "x", "=", " ", "9", "x", " ">>,
                <<"=", " ", "9", " ", " ", "x", " ">>,
                <<"=", " ", "9", "x", " ", "x">>}

Titles == {<<"9">>, <<"9", " ">>, <<"9", "x">>}
Milestone(t, n) == [title |-> t, number |-> n]
AllMilestoneLists ==
    SeqsUpTo({Milestone(t, n) : t \in Titles, n \in 0..MaxNumber}, MaxMilestones)
SampleMilestoneLists == {<<>>,
                         <<Milestone(<<"9">>, 1)>>,
                         <<Milestone(<<"9", " ">>, 2), Milestone(<<"9", "x">>, 1)>>}

Url(i) == <<ToString(i)>>
BaseUrl == Url(1)
Label(name) == [name |-> name]
Issue(n, p, ls) ==
    [number |-> n, title |-> <<"t", ToString(n)>>, html_url |-> <<"u", ToString(n)>>,
     labels |-> ls, is_pr |-> p]

\* one entry of a Link header, as the server writes it: <url>; rel="..."
LinkEntry(url, rel) == <<"<">> \o url \o <<">", ";", " ", rel>>
RelNext == "rel=next"
RelPrev == "rel=prev"
RelLast == "rel=last"
RelFirst == "rel=first"
LinkHeader(entries) == PyJoin(<<",", " ">>, entries)

LinkStyles == {"next_first", "prev_first"}
\* the Link header of page i of n: the next relation leads the list, or follows prev
LinkOf(i, n, style) ==
    LET prev == LinkEntry(Url(IF i > 1 THEN i - 1 ELSE 1), RelPrev)
        next == LinkEntry(Url(i + 1), RelNext)
        last == LinkEntry(Url(n), RelLast)
        first == LinkEntry(Url(1), RelFirst)
    IN  IF i < n
        THEN IF style = "next_first" THEN LinkHeader(<<next, last>>)
                                     ELSE LinkHeader(<<prev, next, last, first>>)
        ELSE IF style = "next_first" THEN <<>>
                                     ELSE LinkHeader(<<prev, first>>)

\* page i of n: its issues, its Link header, and the page its next relation names
Page(i, n, flags, style) ==
    [issues |-> [j \in 1..Len(flags) |-> Issue(10 * i + j, flags[j], <<>>)],
     link |-> LinkOf(i, n, style),
     next |-> IF i < n THEN Some(Url(i + 1)) ELSE None]
\* the issues endpoint serves some chain of up to MaxPages pages of up to MaxPageLen
\* issues each, of which only the last page can be empty
AnyChainServed ==
    \E n \in 1..MaxPages :
        \E fl \in [1..n -> SeqsUpTo(BOOLEAN, MaxPageLen)], st \in [1..n -> LinkStyles] :
            /\ \A i \in 1..(n - 1) : fl[i] # <<>>
            /\ pages = [i \in 1..n |-> Page(i, n, fl[i], st[i])]
SampleChains ==
    {<<Page(1, 1, <<>>, "next_first")>>,
     <<Page(1, 1, <<TRUE>>, "next_first")>>,
     <<Page(1, 2, <<TRUE>>, "next_first"), Page(2, 2, <<FALSE>>, "prev_first")>>,
     <<Page(1, 2, <<TRUE>>, "prev_first"), Page(2, 2, <<TRUE>>, "next_first")>>,
     <<Page(1, 3, <<TRUE>>, "next_first"), Page(2, 3, <<FALSE>>, "next_first"),
       Page(3, 3, <<TRUE>>, "prev_first")>>}

(***************************************************************************)
(* Init: the state when the entry function is called.                      *)
(***************************************************************************)
InitWith(E, V, T, C, M) ==
    /\ entry \in E
    /\ version \in V
    /\ token \in T
    /\ remote_changelog \in C
    /\ milestones \in M
    /\ pc = IF entry = "main" THEN "fetch_prs" ELSE entry
    /\ stages = <<>>
    /\ milestone_number = None
    /\ http = <<>>
    /\ next_url = None
    /\ params = "query"
    /\ page_count = 0
    /\ all_prs = <<>>
    /\ requested = <<>>
    /\ idx = 0
    /\ changelog_rows = <<>>
    /\ attempts = 0
    /\ n403 = 0
    /\ slept = 0
    /\ pr_calls = <<>>
    /\ writes = 0
    /\ log = <<>>
    /\ result = "none"
    /\ exc = "none"
    /\ exit_code = None

(***************************************************************************)
(* save_changelog                                                          *)
(***************************************************************************)
Fieldnames == <<"ID", "Title", "Labels", "URL", "Description", "Ranking">>

\* what the file system does with the call: makedirs raises, open raises,
\* a write raises after open truncated the file, or everything is written
WriteOutcomes == {"ok", "makedirs_error", "open_error", "write_error"}

\* a row whose title does not name the version
TextRowWithoutVersion(v, content) ==
    [ID |-> <<>>, Title |-> <<"Changelog for version ">>, Labels |-> <<>>,
     URL |-> <<>>, Description |-> content, Ranking |-> <<>>]

\* the single row that wraps the raw changelog text
TextRow(v, content) ==
    [ID |-> <<>>, Title |-> <<"Changelog for version ">> \o v, Labels |-> <<>>,
     URL |-> <<>>, Description |-> content, Ranking |-> <<>>]

\* str(n) of a non-negative int: its decimal digits
RECURSIVE PyStrInt(_)
PyStrInt(n) ==
    IF n < 10 THEN <<ToString(n)>> ELSE PyStrInt(n \div 10) \o <<ToString(n % 10)>>

\* the characters that make csv.writer quote a field (QUOTE_MINIMAL, excel dialect)
CsvSpecial == {",", "\"", "\n", "\r"}

\* a field written as it is, never quoted
CsvFieldUnquoted(s) == s

\* a field as csv.writer writes it: quoted, its quotes doubled, when it holds a
\* special character
CsvField(s) ==
    IF \A k \in 1..Len(s) : s[k] \notin CsvSpecial THEN s
    ELSE <<"\"">>
         \o Flatten([k \in 1..Len(s) |-> IF s[k] = "\"" THEN <<"\"", "\"">> ELSE <<s[k]>>])
         \o <<"\"">>

\* writer.writerow: the fields joined by commas, ended by "\r\n"
CsvRecord(cells) ==
    PyJoin(<<",">>, [k \in 1..Len(cells) |-> CsvField(cells[k])]) \o <<"\r", "\n">>

\* the cells DictWriter takes from a row dict, in fieldnames order; an int ID is
\* written as str(ID)
CsvCells(row, int_id) ==
    [k \in 1..Len(Fieldnames) |->
        IF Fieldnames[k] = "ID" /\ int_id THEN PyStrInt(row.ID) ELSE row[Fieldnames[k]]]

\* writeheader() then writerows(rows): the characters of the file
CsvText(rows, int_id) ==
    CsvRecord([k \in 1..Len(Fieldnames) |-> <<Fieldnames[k]>>])
    \o Flatten([k \in 1..Len(rows) |-> CsvRecord(CsvCells(rows[k], int_id))])

\* a save_changelog that opens the file for appending
save_changelog_appending(v, content, is_str, w, old) ==
    LET rows == IF is_str THEN <<TextRow(v, content)>> ELSE content
        was == IF old = None
               THEN [header |-> Fieldnames, rows |-> <<>>, complete |-> TRUE, text |-> <<>>]
               ELSE old[1]
    IN  [raised |-> IF w = "makedirs_error" THEN "OSError" ELSE "none",
         ret |-> IF w = "ok" THEN "True" ELSE "False",
         file |-> CASE w = "ok" ->
                         Some([header |-> Fieldnames, rows |-> was.rows \o rows,
                               complete |-> TRUE,
                               text |-> was.text \o CsvText(rows, ~is_str)])
                    [] w = "write_error" ->
                         Some([was EXCEPT !.complete = FALSE,
                                          !.text = @ \o CsvText(<<>>, ~is_str)])
                    [] OTHER -> old,
         log |-> CASE w = "ok" -> <<"saved">>
                   [] w = "makedirs_error" -> <<>>
                   [] OTHER -> <<"error_saving">>]

\* save_changelog(version, content) under file-system outcome w, the file being old:
\* the exception it raises, the value it returns, the file it leaves (the header and
\* rows handed to the writer, and the characters on disk), what it prints
save_changelog(v, content, is_str, w, old) ==
    LET rows == IF is_str THEN <<TextRow(v, content)>> ELSE content
    IN  [raised |-> IF w = "makedirs_error" THEN "OSError" ELSE "none",
         ret |-> IF w = "ok" THEN "True" ELSE "False",
         file |-> CASE w = "ok" ->
                         Some([header |-> Fieldnames, rows |-> rows, complete |-> TRUE,
                               text |-> CsvText(rows, ~is_str)])
                    [] w = "write_error" ->
                         Some([header |-> Fieldnames, rows |-> <<>>, complete |-> FALSE,
                               text |-> CsvText(<<>>, ~is_str)])
                    [] OTHER -> old,
         log |-> CASE w = "ok" -> <<"saved">>
                   [] w = "makedirs_error" -> <<>>
                   [] OTHER -> <<"error_saving">>]

(***************************************************************************)
(* How a call of the entry function ends.                                  *)
(***************************************************************************)
\* except clauses that catch the request exceptions only
FetchChangelogExceptRequestOnly(raised) ==
    [caught |-> raised = "RequestException", log |-> <<"error_fetching_changelog">>]

\* the except clauses of fetch_changelog, for an exception raised inside its try
FetchChangelogExcept(raised) ==
    IF raised = "RequestException"
    THEN [caught |-> TRUE, log |-> <<"error_fetching_changelog">>]
    ELSE [caught |-> TRUE, log |-> <<"error_occurred">>]

\* fetch_changelog ends its try block with value ret or with exception raised
EndFetchChangelog(ret, raised) ==
    IF raised = "none"
    THEN [result |-> ret, exc |-> "none", exit_code |-> None, log |-> <<>>]
    ELSE LET h == FetchChangelogExcept(raised)
         IN  IF h.caught
             THEN [result |-> "False", exc |-> "none", exit_code |-> None, log |-> h.log]
             ELSE [result |-> "none", exc |-> raised, exit_code |-> None, log |-> <<>>]

\* __main__: exit(0 if success else 1); an uncaught exception ends the process with 1
EndMain(ret, raised) ==
    IF raised = "none"
    THEN [result |-> ret, exc |-> "none",
          exit_code |-> Some(IF ret = "True" THEN 0 ELSE 1), log |-> <<>>]
    ELSE [result |-> "none", exc |-> raised, exit_code |-> Some(1), log |-> <<>>]

\* fetch_prs_from_github returns ret, or raises, to whoever called it: __main__, also
\* when the script runs as a stage of the orchestrator, or fetch_changelog
EndFetchPrs(e, ret, raised) ==
    IF e # "fetch_changelog" THEN EndMain(ret, raised) ELSE EndFetchChangelog(ret, raised)

\* save_changelog returns ret, or raises, to whoever called it
EndSaveChangelog(ret, raised) ==
    IF raised = "none"
    THEN [result |-> ret, exc |-> "none", exit_code |-> None, log |-> <<>>]
    ELSE [result |-> "none", exc |-> raised, exit_code |-> None, log |-> <<>>]

\* the run ends: the messages msgs are printed, then the entry function ends as `end`
Finish(msgs, end) ==
    /\ pc' = "done"
    /\ log' = log \o msgs \o end.log
    /\ result' = end.result
    /\ exc' = end.exc
    /\ exit_code' = end.exit_code

(***************************************************************************)
(* fetch_changelog                                                         *)
(***************************************************************************)
version_marker(v) == <<"=", " ">> \o v \o <<" ">>

\* a section cut at the next "=" instead of the next "= "
changelog_content_cut_at_equals(content, v) ==
    LET parts == PySplit(content, version_marker(v))
    IN  PyStrip(PySplit(parts[2], <<"=">>)[1])

\* `version_marker not in content` is false: the section the function saves
changelog_content(content, v) ==
    LET parts == PySplit(content, version_marker(v))
    IN  PyStrip(PySplit(parts[2], <<"=", " ">>)[1])

\* a lookup that reports every marker absent
marker_absent_always(content, v) == TRUE

\* `version_marker not in content`
marker_absent(content, v) == ~Contains(version_marker(v), content)

FetchChangelog ==
    /\ pc = "fetch_changelog"
    /\ \E resp \in {"ok", "error"}, w \in env.fs :
        IF resp = "error"
        THEN /\ Finish(<<>>, EndFetchChangelog("none", "RequestException"))
             /\ http' = Append(http, [endpoint |-> "changelog", status |-> "error"])
             /\ UNCHANGED <<stages, file, writes>>
        ELSE IF marker_absent(remote_changelog, version)
        THEN /\ pc' = "fetch_prs"
             /\ http' = Append(http, [endpoint |-> "changelog", status |-> "ok"])
             /\ stages' = stages \o <<"lookup_absent">>
             /\ log' = log \o <<"changelog_not_found">>
             /\ UNCHANGED <<file, writes, outcome>>
        ELSE IF Len(PySplit(remote_changelog, version_marker(version))) < 2
        THEN /\ Finish(<<"could_not_find_section">>, EndFetchChangelog("False", "none"))
             /\ http' = Append(http, [endpoint |-> "changelog", status |-> "ok"])
             /\ stages' = stages \o <<"lookup_present">>
             /\ UNCHANGED <<file, writes>>
        ELSE LET sv == save_changelog(version, changelog_content(remote_changelog, version),
                                      TRUE, w, file)
             IN  /\ http' = Append(http, [endpoint |-> "changelog", status |-> "ok"])
                 /\ stages' = stages \o <<"lookup_present", "save">>
                 /\ file' = sv.file
                 /\ writes' = writes + 1
                 /\ Finish(sv.log, EndFetchChangelog("True", sv.raised))
    /\ UNCHANGED <<entry, version, token, server, milestone_number, next_url, params,
                   page_count, all_prs, requested, enricher>>

(***************************************************************************)
(* fetch_prs_from_github: the milestone lookup                             *)
(***************************************************************************)
\* the for loop over the milestones: the number of the first whose title is the version
ResolveMilestone(ms, v) ==
    LET hits == {k \in 1..Len(ms) : ms[k].title = v}
    IN  IF hits = {} THEN None ELSE Some(ms[SetMin(hits)].number)

\* Python truthiness of an Optional[int]: None and 0 are false
TruthyInt(x) == x # None /\ x # Some(0)

\* Python truthiness of an Optional[str]: None and "" are false
TruthyStr(x) == x # None /\ x # Some(<<>>)

\* a milestone step that leaves a 403 to raise_for_status
MilestoneStepWithout403Branch(tok, resp, ms, v) ==
    IF ~tok
    THEN [requests |-> 0, number |-> None, log |-> <<"token_not_set">>, ret |-> "False"]
    ELSE IF resp \in {"403", "error"}
    THEN [requests |-> 1, number |-> None, log |-> <<"error_fetching_prs">>,
          ret |-> "False"]
    ELSE LET n == ResolveMilestone(ms, v)
             found == IF n # None THEN <<"found_milestone">> ELSE <<>>
         IN  IF ~TruthyInt(n)
             THEN [requests |-> 1, number |-> n,
                   log |-> found \o <<"milestone_not_found">>, ret |-> "False"]
             ELSE [requests |-> 1, number |-> n, log |-> found, ret |-> "none"]

\* lines 57-90 for a token, a response of the milestones endpoint and the list it
\* carries: the requests made, the number resolved, what is printed, and the value
\* returned ("none" when the function goes on to the pages)
MilestoneStep(tok, resp, ms, v) ==
    IF ~tok
    THEN [requests |-> 0, number |-> None, log |-> <<"token_not_set">>, ret |-> "False"]
    ELSE IF resp = "403"
    THEN [requests |-> 1, number |-> None, log |-> <<"rate_limit_exceeded">>,
          ret |-> "False"]
    ELSE IF resp = "error"
    THEN [requests |-> 1, number |-> None, log |-> <<"error_fetching_prs">>,
          ret |-> "False"]
    ELSE LET n == ResolveMilestone(ms, v)
             found == IF n # None THEN <<"found_milestone">> ELSE <<>>
         IN  IF ~TruthyInt(n)
             THEN [requests |-> 1, number |-> n,
                   log |-> found \o <<"milestone_not_found">>, ret |-> "False"]
             ELSE [requests |-> 1, number |-> n, log |-> found, ret |-> "none"]

FetchPrsMilestone ==
    /\ pc = "fetch_prs"
    /\ \E resp \in env.api :
        LET m == MilestoneStep(token, resp, milestones, version)
        IN  /\ stages' = stages \o (IF m.requests = 0 THEN <<"fetch_prs">>
                                    ELSE <<"fetch_prs", "milestone">>)
            /\ http' = http \o [k \in 1..m.requests |->
                                   [endpoint |-> "milestones", status |-> resp]]
            /\ milestone_number' = m.number
            /\ UNCHANGED <<page_count, all_prs, requested>>
            /\ IF m.ret # "none"
               THEN /\ Finish(m.log, EndFetchPrs(entry, m.ret, "none"))
                    /\ UNCHANGED <<next_url, params>>
               ELSE /\ pc' = "pages"
                    /\ next_url' = Some(BaseUrl)
                    /\ params' = "query"
                    /\ log' = log \o m.log
                    /\ UNCHANGED outcome
    /\ UNCHANGED <<entry, version, token, server, file, enricher, writes>>

(***************************************************************************)
(* fetch_prs_from_github: the page loop                                    *)
(***************************************************************************)
\* the page a URL names on the server, 0 when the URL names none
PageIndex(u) ==
    LET hits == {i \in 1..Len(pages) : Url(i) = u}
    IN  IF hits = {} THEN 0 ELSE SetMin(hits)

\* a filter that keeps every entry of the page
OnlyPrsKeepsAll(issues) == issues

\* prs = [issue for issue in issues if 'pull_request' in issue]
RECURSIVE OnlyPrs(_)
OnlyPrs(issues) ==
    IF issues = <<>> THEN <<>>
    ELSE (IF issues[1].is_pr THEN <<issues[1]>> ELSE <<>>) \o OnlyPrs(Tail(issues))

\* the next_url the loop takes from a response's Link header ('' when there is none)
NextUrlFromLink(link_header) ==
    IF link_header = <<>> THEN None
    ELSE LET links == PySplit(link_header, <<",">>)
             hits == {k \in 1..Len(links) : Contains(<<RelNext>>, links[k])}
         IN  IF hits = {} THEN None
             ELSE Some(PyStripChars(PySplit(links[SetMin(hits)], <<";">>)[1], {"<", ">"}))

\* lines 140-143 after the loop, with the list the loop accumulated
AfterLoop(msgs, prs) ==
    IF prs = <<>>
    THEN /\ Finish(msgs \o <<"total_prs", "no_prs_found">>, EndFetchPrs(entry, "False", "none"))
         /\ UNCHANGED idx
    ELSE /\ pc' = "description"
         /\ idx' = 1
         /\ log' = log \o msgs \o <<"total_prs">>
         /\ UNCHANGED outcome

\* a page request that fails only when its URL cannot be requested
PageRequestFailsOnBadUrlOnly(resp, i) == i = 0

\* requests.get raises for a URL that cannot be requested, and raise_for_status
\* raises for every status that is not a success, 403 included
PageRequestFails(resp, i) == resp # "ok" \/ i = 0

FetchPage ==
    /\ pc = "pages"
    /\ TruthyStr(next_url)
    /\ \E resp \in env.api :
        LET u == next_url[1]
            i == PageIndex(u)
        IN  /\ page_count' = page_count + 1
            /\ requested' = Append(requested, u)
            /\ http' = Append(http, [endpoint |-> "issues",
                                     status |-> IF i = 0 THEN "invalid_url" ELSE resp])
            /\ stages' = IF page_count = 0 THEN stages \o <<"pages">> ELSE stages
            /\ IF PageRequestFails(resp, i)
               THEN /\ Finish(<<"fetching_page", "error_fetching_prs">>,
                              EndFetchPrs(entry, "False", "none"))
                    /\ UNCHANGED <<next_url, params, all_prs, idx>>
               ELSE IF pages[i].issues = <<>>
               THEN /\ AfterLoop(<<"fetching_page", "no_more_prs">>, all_prs)
                    /\ UNCHANGED <<next_url, params, all_prs>>
               ELSE LET acc == all_prs \o OnlyPrs(pages[i].issues)
                        nxt == NextUrlFromLink(pages[i].link)
                    IN  /\ all_prs' = acc
                        /\ next_url' = nxt
                        /\ IF ~TruthyStr(nxt)
                           THEN /\ AfterLoop(<<"fetching_page", "found_prs", "no_more_pages">>, acc)
                                /\ UNCHANGED params
                           ELSE /\ params' = "empty"
                                /\ log' = log \o <<"fetching_page", "found_prs">>
                                /\ UNCHANGED <<pc, idx, outcome>>
    /\ UNCHANGED <<entry, version, token, server, file, milestone_number,
                   changelog_rows, attempts, n403, slept, pr_calls, writes>>

(***************************************************************************)
(* extract_changes_section                                                 *)
(***************************************************************************)
\* the two literal markers; the first is two symbols of a body's text, so that a
\* body can hold markup between its words
ChangesMarker == <<"Changes proposed", " in this Pull Request:">>
TestMarker == <<"How to test the changes in this Pull Request:">>

\* re.sub(r'<[^>]+>', '', s)
RECURSIVE StripTags(_)
StripTags(s) ==
    IF s = <<>> THEN <<>>
    ELSE LET close == {j \in 2..Len(s) : s[j] = ">"}
         IN  IF s[1] = "<" /\ close # {} /\ SetMin(close) >= 3
             THEN StripTags(Tail_(s, SetMin(close) + 1))
             ELSE <<s[1]>> \o StripTags(Tail(s))

\* html.unescape, on the entities of the model's texts
UnescapeChar(c) ==
    CASE c = "&lt;" -> "<"
      [] c = "&gt;" -> ">"
      [] c = "&amp;" -> "&"
      [] OTHER -> c
Unescape(s) == [k \in 1..Len(s) |-> UnescapeChar(s[k])]

StartsWith(s, pre) == StartsAt(s, pre, 1)
EndsWith(s, suf) == Len(suf) <= Len(s) /\ StartsAt(s, suf, Len(s) - Len(suf) + 1)

\* the comment delimiters '<!--' and '-->'; "!--" and "--" are one symbol each
CommentOpen == <<"<", "!--">>
CommentClose == <<"--", ">">>

RECURSIVE KeepLines(_)
KeepLines(lines) ==
    IF lines = <<>> THEN <<>>
    ELSE (IF /\ lines[1] # <<>>
             /\ ~StartsWith(lines[1], CommentOpen)
             /\ ~EndsWith(lines[1], CommentClose)
          THEN <<lines[1]>> ELSE <<>>) \o KeepLines(Tail(lines))

\* a pattern whose first marker is optional
changes_match_marker_optional(text) ==
    LET from == Find(text, ChangesMarker, 1)
        start == IF from = 0 THEN 1 ELSE from + Len(ChangesMarker)
        to == Find(text, TestMarker, start)
    IN  Some(IF to = 0 THEN Tail_(text, start) ELSE SubSeq(text, start, to - 1))

\* re.search(pattern, description, re.DOTALL): None, or Some(group 1) of the
\* leftmost match: the text after the first Changes marker, up to the first Test
\* marker that follows it or to the end
changes_match(text) ==
    LET from == Find(text, ChangesMarker, 1)
        start == from + Len(ChangesMarker)
        to == Find(text, TestMarker, start)
    IN  IF from = 0 THEN None
        ELSE Some(IF to = 0 THEN Tail_(text, start) ELSE SubSeq(text, start, to - 1))

\* a clean-up that keeps the comment lines
clean_section_keeping_comments(content) ==
    LET split == PySplit(content, <<"\n">>)
        lines == [k \in 1..Len(split) |-> PyStrip(split[k])]
    IN  PyStrip(PyJoin(<<"\n">>, SelectSeq(lines, LAMBDA l : l # <<>>)))

\* lines 174-176: strip every line, drop the empty and the comment lines, join
clean_section(content) ==
    LET split == PySplit(content, <<"\n">>)
        lines == [k \in 1..Len(split) |-> PyStrip(split[k])]
    IN  PyStrip(PyJoin(<<"\n">>, KeepLines(lines)))

extract_changes_section(description) ==
    IF description = <<>> THEN <<>>
    ELSE LET match == changes_match(Unescape(StripTags(description)))
         IN  IF match # None THEN clean_section(match[1]) ELSE <<>>

SampleBodies == {<<>>,
                 <<"a">>,
                 ChangesMarker \o <<"\n", "a", " ", "\n", "\n">> \o TestMarker \o <<"\n", "b">>}

(***************************************************************************)
(* format_prs_as_changelog and fetch_pr_description                        *)
(***************************************************************************)
\* str.lower() on the letters A-Z; every other character is left as it is
UpperLetters == <<"A", "B", "C", "D", "E", "F", "G", "H", "I", "J", "K", "L", "M",
                  "N", "O", "P", "Q", "R", "S", "T", "U", "V", "W", "X", "Y", "Z">>
LowerLetters == <<"a", "b", "c", "d", "e", "f", "g", "h", "i", "j", "k", "l", "m",
                  "n", "o", "p", "q", "r", "s", "t", "u", "v", "w", "x", "y", "z">>
LowerChar(c) ==
    IF \E k \in 1..Len(UpperLetters) : UpperLetters[k] = c
    THEN LowerLetters[CHOOSE k \in 1..Len(UpperLetters) : UpperLetters[k] = c]
    ELSE c
Lower(s) == [k \in 1..Len(s) |-> LowerChar(s[k])]

PluginLabel == <<"p", "l", "u", "g", "i", "n", ":", " ",
                 "w", "o", "o", "c", "o", "m", "m", "e", "r", "c", "e">>

\* a filter that compares the names as they are
KeptLabelsCaseSensitive(ls) ==
    LET names == [k \in 1..Len(ls) |-> ls[k].name]
    IN  SelectSeq(names, LAMBDA n : n # PluginLabel)

\* labels = [label["name"] for label in ... if label["name"].lower() != "plugin: woocommerce"]
RECURSIVE KeptLabels(_)
KeptLabels(ls) ==
    IF ls = <<>> THEN <<>>
    ELSE (IF Lower(ls[1].name) # PluginLabel THEN <<ls[1].name>> ELSE <<>>)
         \o KeptLabels(Tail(ls))

label_str(ls) == PyJoin(<<",", " ">>, KeptLabels(ls))

\* a dict with the title and the URL in each other's place
RowTitleAndUrlSwapped(pr, description) ==
    [ID |-> pr.number, Title |-> pr.html_url, Labels |-> label_str(pr.labels),
     URL |-> pr.title, Description |-> description, Ranking |-> <<>>]

\* the dict format_prs_as_changelog appends for a PR and its fetched description
Row(pr, description) ==
    [ID |-> pr.number, Title |-> pr.title, Labels |-> label_str(pr.labels),
     URL |-> pr.html_url, Description |-> description, Ranking |-> <<>>]

\* a body read whatever the status
DescriptionOfAnyStatus(status, body) == extract_changes_section(body)

\* what fetch_pr_description does with a response: retry after a sleep, or return a text
DescriptionOf(status, body) ==
    IF status = OkStatus THEN extract_changes_section(body) ELSE <<>>

\* a 403 handled like every other error status: no retry
ShouldRetryNever(status) == FALSE

\* `elif response.status_code == 403`: sleep, then call fetch_pr_description again
ShouldRetry(status) == status = RateLimitStatus

Statuses == {OkStatus, RateLimitStatus, 404}

FetchPrDescription ==
    /\ pc = "description"
    /\ idx \in 1..Len(all_prs)
    /\ \E status \in env.statuses, body \in env.bodies, w \in env.fs :
        LET pr == all_prs[idx]
        IN  /\ http' = Append(http, [endpoint |-> "pulls", status |-> ToString(status)])
            /\ IF status # OkStatus /\ ShouldRetry(status)
               THEN /\ n403 < Max403
                    /\ attempts' = attempts + 1
                    /\ n403' = n403 + 1
                    /\ slept' = slept + SleepSeconds
                    /\ log' = log \o <<"rate_limit_wait">>
                    /\ stages' = IF idx = 1 /\ attempts = 0
                                 THEN stages \o <<"description">> ELSE stages
                    /\ UNCHANGED <<pc, idx, changelog_rows, pr_calls, file, writes, outcome>>
               ELSE LET rows == Append(changelog_rows, Row(pr, DescriptionOf(status, body)))
                        msgs == IF status = OkStatus THEN <<>> ELSE <<"error_fetching_pr">>
                        st == IF idx = 1 /\ attempts = 0
                              THEN stages \o <<"description">> ELSE stages
                    IN  /\ changelog_rows' = rows
                        /\ pr_calls' = Append(pr_calls,
                               [id |-> pr.number, requests |-> attempts + 1,
                                n403 |-> n403, slept |-> slept, status |-> status,
                                body |-> body,
                                returned |-> DescriptionOf(status, body)])
                        /\ attempts' = 0
                        /\ n403' = 0
                        /\ slept' = 0
                        /\ IF idx < Len(all_prs)
                           THEN /\ idx' = idx + 1
                                /\ pc' = "description"
                                /\ log' = log \o msgs
                                /\ stages' = st
                                /\ UNCHANGED <<file, writes, outcome>>
                           ELSE LET sv == save_changelog(version, rows, FALSE, w, file)
                                IN  /\ idx' = idx
                                    /\ stages' = st \o <<"records", "save">>
                                    /\ file' = sv.file
                                    /\ writes' = writes + 1
                                    /\ Finish(msgs \o sv.log,
                                              EndFetchPrs(entry, "True", sv.raised))
    /\ UNCHANGED <<entry, version, token, server, milestone_number, next_url, params,
                   page_count, all_prs, requested>>

(***************************************************************************)
(* A call of save_changelog(version, content) with a list of records.      *)
(***************************************************************************)
\* field texts that hold a comma, quotes, line breaks
CsvTexts ==
    {<<>>,
     <<"a">>,
     <<"a", ",", "b">>,
     <<"\"", "a", "\"", " ">>,
     <<"a", "\n", "b", "\r", "\n">>}

\* records as a caller can pass them
CsvRows ==
    {[ID |-> n, Title |-> <<"t">>,
      Labels |-> IF n = 7 THEN <<>> ELSE <<"a", ",", " ", "b">>,
      URL |-> <<"u">>, Description |-> d,
      Ranking |-> IF n = 7 THEN <<>> ELSE <<"m">>] : n \in {7, 12}, d \in CsvTexts}
RowLists == SeqsUpTo(CsvRows, MaxRows)

SaveChangelogCall ==
    /\ pc = "save_changelog"
    /\ \E rows \in RowLists, w \in env.fs :
        LET sv == save_changelog(version, rows, FALSE, w, file)
        IN  /\ changelog_rows' = rows
            /\ stages' = stages \o <<"save">>
            /\ file' = sv.file
            /\ writes' = writes + 1
            /\ Finish(sv.log, EndSaveChangelog(sv.ret, sv.raised))
    /\ UNCHANGED <<entry, version, token, server, collector, idx, attempts, n403, slept,
                   pr_calls>>

(***************************************************************************)
(* The file and the services at the start of a run.                        *)
(***************************************************************************)
\* the rows an earlier run wrote for the version, their Ranking filled in since
PriorRows ==
    [k \in 1..3 |-> [Row(Issue(90 + k, TRUE, <<>>), <<"o">>) EXCEPT !.Ranking = <<"h">>]]
PriorFile ==
    Some([header |-> Fieldnames, rows |-> PriorRows, complete |-> TRUE,
          text |-> CsvText(PriorRows, TRUE)])

\* services that can answer or fail in every way the model distinguishes
AnyEnv ==
    [api |-> {"ok", "403", "error"}, statuses |-> Statuses, bodies |-> SampleBodies,
     fs |-> WriteOutcomes]

\* no other file, and update-release-pr-spreadsheet.py is not running
NoDisk == [txt |-> {}, posts |-> <<>>]
OrchIdle ==
    [pc |-> "none", fetch_changelog |-> FALSE, size |-> 0, tried |-> <<>>,
     release_notes |-> None, changelog |-> None, chunks |-> <<>>, log |-> <<>>]

\* the file is one of F when the run starts, and the services behave as e
StartWith(F, e) ==
    /\ file \in F
    /\ file_before = file
    /\ env = e
    /\ disk = NoDisk
    /\ orch = OrchIdle

Init ==
    /\ InitWith({"main", "fetch_changelog"}, Versions, BOOLEAN, SampleTexts,
                SampleMilestoneLists)
    /\ pages \in SampleChains
    /\ StartWith({None, PriorFile}, AnyEnv)

Next ==
    \/ FetchChangelog
    \/ FetchPrsMilestone
    \/ FetchPage
    \/ FetchPrDescription

Spec == Init /\ [][Next]_vars

(***************************************************************************)
(* The specification of the section lookup alone: every text up to         *)
(* MaxTextLen characters is served, and fetch_changelog is called.         *)
(***************************************************************************)
InitLocate ==
    /\ InitWith({"fetch_changelog"}, Versions, {TRUE}, AllTexts,
                {<<Milestone(<<"9">>, 1)>>})
    /\ pages = <<Page(1, 1, <<TRUE>>, "next_first")>>
    /\ StartWith({None}, AnyEnv)
SpecLocate == InitLocate /\ [][FetchChangelog]_vars

(***************************************************************************)
(* Properties.                                                             *)
(***************************************************************************)
Has(seq, x) == \E k \in 1..Len(seq) : seq[k] = x
ChainStages == {"fetch_prs", "milestone", "pages", "description", "records"}
ChainEntered == \E k \in 1..Len(stages) : stages[k] \in ChainStages
MarkerInText == Contains(<<"=", " ">> \o version \o <<" ">>, remote_changelog)

\* C1, as stated: whenever the milestone / pages / description / records chain has
\* been entered, the raw-changelog lookup ran first and reported the marker absent.
C1_LookupBeforeChain ==
    ChainEntered => (stages[1] = "lookup_absent" /\ ~MarkerInText)

\* C1, amended: in a run started by calling fetch_changelog the chain is entered only
\* after the lookup ran first and found the marker absent; a run started from
\* __main__ enters the chain and never runs the lookup.
C1_LookupBeforeChainFromFetchChangelog ==
    /\ (entry = "fetch_changelog" /\ ChainEntered) =>
           /\ stages[1] = "lookup_absent"
           /\ ~MarkerInText
           /\ http[1] = [endpoint |-> "changelog", status |-> "ok"]
           /\ \A k \in 2..Len(stages) : stages[k] \in ChainStages \cup {"save"}
    /\ entry = "main" =>
           /\ ~Has(stages, "lookup_absent") /\ ~Has(stages, "lookup_present")
           /\ \A k \in 1..Len(http) : http[k].endpoint # "changelog"
           /\ pc # "fetch_prs" => ChainEntered

C1_Witness ==
    entry = "fetch_changelog" /\ Has(stages, "milestone") /\ Has(stages, "pages")

\* the text after the first marker "= V " up to the next "= ", or to the end of the text
RawSection(content, v) ==
    LET marker == <<"=", " ">> \o v \o <<" ">>
        start == Find(content, marker, 1) + Len(marker)
        stop == Find(content, <<"=", " ">>, start)
    IN  IF stop = 0 THEN Tail_(content, start) ELSE SubSeq(content, start, stop - 1)

\* d is s without its leading and trailing whitespace
IsTrimOf(d, s) ==
    /\ d # <<>> => (d[1] \notin Whitespace /\ d[Len(d)] \notin Whitespace)
    /\ \E a \in 0..Len(s) :
          /\ a + Len(d) <= Len(s)
          /\ SubSeq(s, a + 1, a + Len(d)) = d
          /\ \A k \in (1..a) \cup ((a + Len(d) + 1)..Len(s)) : s[k] \in Whitespace

SavedFromText ==
    /\ pc = "done"
    /\ Has(stages, "lookup_present")
    /\ Has(log, "saved")
    /\ file # None
    /\ file[1].complete

\* C2, as stated: when the marker occurs, the saved text is exactly the text between
\* the marker and the next "= " (or the end), no character lost or duplicated.
C2_SavesExactSection ==
    SavedFromText =>
        file[1].rows[1].Description = RawSection(remote_changelog, version)

\* C2, amended: the saved text is that section with its leading and trailing
\* whitespace removed, and nothing else lost or duplicated.
C2_SavesTrimmedSection ==
    SavedFromText =>
        /\ MarkerInText
        /\ Len(file[1].rows) = 1
        /\ IsTrimOf(file[1].rows[1].Description, RawSection(remote_changelog, version))

C2_Witness ==
    /\ SavedFromText
    /\ file[1].rows[1].Description # <<>>
    /\ file[1].rows[1].Description # RawSection(remote_changelog, version)

(***************************************************************************)
(* The specification of the page collector alone: the token is set, the    *)
(* milestone exists, and every chain of up to MaxPages pages is served.    *)
(***************************************************************************)
InitCollect ==
    /\ InitWith({"main"}, {<<"9">>}, {TRUE}, {<<>>}, {<<Milestone(<<"9">>, 1)>>})
    /\ AnyChainServed
    /\ StartWith({None}, AnyEnv)
NextCollect == FetchPrsMilestone \/ FetchPage
SpecCollect == InitCollect /\ [][NextCollect]_vars

(***************************************************************************)
(* The specification of the milestone lookup alone: every milestone list   *)
(* of up to MaxMilestones entries is served.                               *)
(***************************************************************************)
InitMilestones ==
    /\ InitWith({"main"}, Versions, {TRUE}, {<<>>}, AllMilestoneLists)
    /\ pages = <<Page(1, 1, <<TRUE>>, "next_first")>>
    /\ StartWith({None}, AnyEnv)
SpecMilestones == InitMilestones /\ [][FetchPrsMilestone]_vars

\* no response of the milestones or issues endpoint was a failure
NoTransportFault ==
    \A k \in 1..Len(http) : http[k].status \notin {"error", "403"}
LoopEnded == Has(stages, "pages") /\ pc \in {"description", "done"}
IsPr(e) == e.is_pr
PrsOfChain == Flatten([i \in 1..Len(pages) |-> SelectSeq(pages[i].issues, IsPr)])

\* C3: for a chain whose every page but the last carries a rel="next" entry, the list
\* accumulated when the loop ends is the in-order concatenation of the PR entries of
\* all the pages.
C3_CollectsAllPagesInOrder ==
    (LoopEnded /\ NoTransportFault) => all_prs = PrsOfChain

\* C4: the URL requested for the following page is exactly the URL in the angle
\* brackets of the rel="next" entry, wherever the entry stands in the Link header;
\* without such an entry no further page is requested.
C4_NextUrlIsBracketedUrl ==
    /\ \A k \in 2..Len(requested) :
          /\ PageIndex(requested[k - 1]) # 0
          /\ pages[PageIndex(requested[k - 1])].next = Some(requested[k])
    /\ (pc = "pages" /\ requested # <<>>) =>
          /\ PageIndex(requested[Len(requested)]) # 0
          /\ next_url = pages[PageIndex(requested[Len(requested)])].next

\* C5: when the loop has ended, each page of the chain was requested exactly once,
\* in chain order, and nothing else was requested.
C5_EachPageRequestedOnce ==
    (LoopEnded /\ NoTransportFault) =>
        requested = [i \in 1..Len(pages) |-> Url(i)]

RECURSIVE SumOf(_, _)
SumOf(seq, field) ==
    IF seq = <<>> THEN 0 ELSE seq[1][field] + SumOf(Tail(seq), field)
CountHttp(endpoint, statuses) ==
    Cardinality({k \in 1..Len(http) :
                    http[k].endpoint = endpoint /\ http[k].status \in statuses})

\* C6: fetch_pr_description sleeps 60 seconds per 403 response and then requests the
\* same PR again; a call makes one request more than the 403 responses it received,
\* and it returns on the first response that is not a 403, never on a 403.
C6_RetryOncePer403 ==
    /\ \A k \in 1..Len(pr_calls) :
          /\ pr_calls[k].requests = pr_calls[k].n403 + 1
          /\ pr_calls[k].slept = 60 * pr_calls[k].n403
          /\ pr_calls[k].status # 403
          /\ pr_calls[k].id = all_prs[k].number
    /\ pc = "description" =>
          /\ attempts = n403
          /\ slept = 60 * n403
          /\ Len(pr_calls) = idx - 1
    /\ CountHttp("pulls", {"200", "403", "404"}) = SumOf(pr_calls, "requests") + attempts
    /\ CountHttp("pulls", {"403"}) = SumOf(pr_calls, "n403") + n403

C6_Witness ==
    \E k \in 1..Len(pr_calls) : pr_calls[k].n403 >= 2 /\ pr_calls[k].requests >= 3

\* C7: when save_changelog could not write the file, the entry function returns a
\* failure (and the process exits non-zero), after a single call of save_changelog.
C7_WriteFailureFailsRun ==
    (pc = "done" /\ Has(log, "error_saving")) =>
        /\ result = "False"
        /\ entry = "main" => exit_code = Some(1)
        /\ writes = 1

\* C8: when the marker "= V " is not in the changelog text, fetch_changelog goes on
\* to the fallback, and whatever the fallback does, no exception leaves
\* fetch_changelog: the call ends with a returned value.
C8_AbsentMarkerNeverRaises ==
    (entry = "fetch_changelog" /\ ~MarkerInText) =>
        /\ exc = "none"
        /\ ~Has(stages, "lookup_present")
        /\ Has(stages, "lookup_absent") => (pc = "fetch_prs" \/ Has(stages, "fetch_prs"))
        /\ Has(stages, "save") => Has(stages, "records")
        /\ pc = "done" => result \in {"True", "False"}

C8_Witness ==
    /\ entry = "fetch_changelog"
    /\ ~MarkerInText
    /\ pc = "done"
    /\ Has(stages, "save")
    /\ Has(log, "error_occurred")
    /\ result = "False"

\* C9: the resolved milestone is one whose title equals the version exactly; it is
\* resolved whenever such a milestone is listed, whatever its number, and "not found"
\* is reported only when no title equals the version.
C9_ResolvesExactTitle ==
    Has(http, [endpoint |-> "milestones", status |-> "ok"]) =>
        LET hits == {k \in 1..Len(milestones) : milestones[k].title = version}
        IN  /\ hits # {} =>
                  /\ pc # "done"
                  /\ \E k \in hits : milestone_number = Some(milestones[k].number)
                  /\ ~Has(log, "milestone_not_found")
            /\ hits = {} =>
                  /\ milestone_number = None
                  /\ Has(log, "milestone_not_found")

RateLimited == Has(http, [endpoint |-> "milestones", status |-> "403"])
\* the value the caller gets when no milestone matches
NotFoundReturn == "False"

\* C10, as stated: after a 403 of the milestones endpoint the caller gets an outcome
\* that differs from the one for a missing milestone, after one request.
C10_RateLimitedDistinctForCaller ==
    (pc = "done" /\ RateLimited) =>
        /\ CountHttp("milestones", {"ok", "403", "error"}) = 1
        /\ (result # NotFoundReturn \/ exc # "none")

\* C10, amended: after a 403 of the milestones endpoint the function prints the
\* rate-limit message, not the missing-milestone warning, and returns False, the
\* value it also returns for a missing milestone; it makes one milestone request per
\* call and none after the 403.
C10_RateLimitedMessageOnly ==
    /\ CountHttp("milestones", {"ok", "403", "error"}) <= 1
    /\ RateLimited =>
          /\ pc = "done"
          /\ result = "False"
          /\ exc = "none"
          /\ entry = "main" => exit_code = Some(1)
          /\ Has(log, "rate_limit_exceeded")
          /\ ~Has(log, "milestone_not_found")
          /\ http[Len(http)] = [endpoint |-> "milestones", status |-> "403"]
    /\ Has(log, "milestone_not_found") =>
          /\ ~Has(log, "rate_limit_exceeded")
          /\ result = NotFoundReturn

C10_Witness == pc = "done" /\ RateLimited /\ Has(log, "rate_limit_exceeded")

\* a request to the milestones or the issues endpoint failed: a 403, another error
\* status or a network failure, or a URL that cannot be requested
FailedApiRequest ==
    \E k \in 1..Len(http) :
        /\ http[k].endpoint \in {"milestones", "issues"}
        /\ http[k].status \in {"403", "error", "invalid_url"}

\* C11: when the milestone request or a page request fails, fetch_prs_from_github
\* ends at once with False and never calls save_changelog: no description is
\* fetched, no record is built from the PRs of the earlier pages, and the output
\* file is the file the run found.
C11_FailedRequestSavesNothing ==
    FailedApiRequest =>
        /\ pc = "done"
        /\ result = "False"
        /\ exc = "none"
        /\ entry = "main" => exit_code = Some(1)
        /\ http[Len(http)].status \in {"403", "error", "invalid_url"}
        /\ writes = 0
        /\ ~Has(stages, "save")
        /\ ~Has(stages, "description")
        /\ changelog_rows = <<>>
        /\ file = file_before

C11_Witness ==
    /\ pc = "done"
    /\ Len(requested) >= 2
    /\ http[Len(http)].endpoint = "issues"
    /\ http[Len(http)].status \in {"403", "error"}
    /\ all_prs # <<>>
    /\ file_before = PriorFile
    /\ file = PriorFile

(***************************************************************************)
(* The specification of the page filter alone: one page is served, with    *)
(* every mix of up to MaxIssues plain issues and pull requests.            *)
(***************************************************************************)
InitFilter ==
    /\ InitWith({"main"}, {<<"9">>}, {TRUE}, {<<>>}, {<<Milestone(<<"9">>, 1)>>})
    /\ \E flags \in SeqsUpTo(BOOLEAN, MaxIssues) :
           pages = <<Page(1, 1, flags, "next_first")>>
    /\ StartWith({None}, AnyEnv)
SpecFilter == InitFilter /\ [][NextCollect]_vars

\* the pages the issues endpoint has answered with success, in the order of the requests
PagesReceived ==
    LET n == CountHttp("issues", {"ok"})
    IN  [k \in 1..n |-> pages[PageIndex(requested[k])]]

\* C12: the collected list is, page after page, exactly the entries of the page that
\* carry the pull-request marker, in the order they have in the page; every other
\* entry is dropped and no entry is changed.
C12_KeepsExactlyThePrEntries ==
    /\ all_prs = Flatten([k \in 1..Len(PagesReceived) |->
                             SelectSeq(PagesReceived[k].issues, IsPr)])
    /\ \A k \in 1..Len(all_prs) : all_prs[k].is_pr
    /\ Len(all_prs) =
          SumOf([k \in 1..Len(PagesReceived) |->
                    [n |-> Cardinality({j \in 1..Len(PagesReceived[k].issues) :
                                          PagesReceived[k].issues[j].is_pr})]], "n")

C12_Witness ==
    /\ pc = "description"
    /\ Len(pages[1].issues) = 4
    /\ pages[1].issues[1].is_pr
    /\ ~pages[1].issues[2].is_pr
    /\ pages[1].issues[3].is_pr
    /\ ~pages[1].issues[4].is_pr
    /\ all_prs = <<pages[1].issues[1], pages[1].issues[3]>>

(***************************************************************************)
(* The specification of the section extractor alone: the run collects one  *)
(* PR, every service answers with success, and the pulls endpoint serves   *)
(* one body: any text of up to MaxPieces pieces, or a longer sample body.  *)
(***************************************************************************)
\* the pieces of a body: the markers, the halves of the Changes marker, a line break,
\* a blank, a letter, a tag, the angle brackets, and the escaped comment delimiters
Pieces ==
    {ChangesMarker, <<ChangesMarker[1]>>, <<ChangesMarker[2]>>, TestMarker,
     <<"\n">>, <<" ">>, <<"a">>, <<"<", "b", ">">>, <<"<">>, <<">">>,
     <<"&lt;", "!--">>, <<"--", "&gt;">>}

\* longer bodies: markup between the words of the Changes marker, the marker inside
\* a tag, escaped comment lines and "\r\n" line ends, a Test marker alone
ExtractBodies ==
    {<<ChangesMarker[1], "<", "b", ">", ChangesMarker[2], "\n", "a">>,
     <<"<">> \o ChangesMarker \o <<">", "a">>,
     ChangesMarker \o <<"\r", "\n", "&lt;", "!--", "\r", "\n", "a", " ", "a", "\r", "\n",
                        "--", "&gt;", "\r", "\n", " ", "a", "\r", "\n">>
                   \o TestMarker \o <<"a">>,
     <<"a", "\n">> \o TestMarker \o <<"\n", "a">>}

\* only success: one status, one body, no file-system error
QuietEnv(body) == [api |-> {"ok"}, statuses |-> {OkStatus}, bodies |-> {body}, fs |-> {"ok"}]

InitExtract ==
    /\ InitWith({"main"}, {<<"9">>}, {TRUE}, {<<>>}, {<<Milestone(<<"9">>, 1)>>})
    /\ pages = <<Page(1, 1, <<TRUE>>, "next_first")>>
    /\ file = None
    /\ file_before = None
    /\ disk = NoDisk
    /\ orch = OrchIdle
    /\ \/ \E n \in 0..MaxPieces : \E f \in [1..n -> Pieces] : env = QuietEnv(Flatten(f))
       \/ \E b \in SampleBodies \cup ExtractBodies : env = QuietEnv(b)
NextPrs == FetchPrsMilestone \/ FetchPage \/ FetchPrDescription
SpecExtract == InitExtract /\ [][NextPrs]_vars

\* the text the markers are searched in
Processed(body) == Unescape(StripTags(body))

\* the text after the first Changes marker of text, up to the first Test marker that
\* follows it or to the end of text
SpanOf(text) ==
    LET first == SetMin({i \in 1..Len(text) : StartsAt(text, ChangesMarker, i)})
        start == first + Len(ChangesMarker)
        stops == {j \in start..Len(text) : StartsAt(text, TestMarker, j)}
    IN  SubSeq(text, start, IF stops = {} THEN Len(text) ELSE SetMin(stops) - 1)

\* the lines of s: the texts between its line breaks
LinesOf(s) ==
    LET nls == {k \in 1..Len(s) : s[k] = "\n"}
        brk(j) == IF j = 0 THEN 0
                  ELSE IF j > Cardinality(nls) THEN Len(s) + 1
                  ELSE CHOOSE k \in nls : Cardinality({m \in nls : m <= k}) = j
    IN  [j \in 1..(Cardinality(nls) + 1) |-> SubSeq(s, brk(j - 1) + 1, brk(j) - 1)]

\* s without its leading and trailing whitespace
TrimOf(s) ==
    CHOOSE d \in {SubSeq(s, a, b) : a \in 1..(Len(s) + 1), b \in 0..Len(s)} : IsTrimOf(d, s)

IsBlankLine(l) == \A k \in 1..Len(l) : l[k] \in Whitespace
IsCommentLine(l) ==
    LET t == TrimOf(l)
    IN  \/ Len(t) >= 2 /\ SubSeq(t, 1, 2) = <<"<", "!--">>
        \/ Len(t) >= 2 /\ SubSeq(t, Len(t) - 1, Len(t)) = <<"--", ">">>
IsKeptLine(l) == ~IsBlankLine(l) /\ ~IsCommentLine(l)

\* the calls of fetch_pr_description that got a 200
ExtractorCalls == {k \in 1..Len(pr_calls) : pr_calls[k].status = 200}

\* C13, as stated: for every body that contains the Changes marker, the extractor
\* returns the span after the marker (tags stripped, entities unescaped) with its
\* blank lines and comment-delimiter lines removed and its other lines kept, in order.
C13_ReturnsSpanLinesKept ==
    \A k \in ExtractorCalls :
        Contains(ChangesMarker, pr_calls[k].body) =>
            /\ Contains(ChangesMarker, Processed(pr_calls[k].body))
            /\ pr_calls[k].returned =
                  PyJoin(<<"\n">>,
                         SelectSeq(LinesOf(SpanOf(Processed(pr_calls[k].body))), IsKeptLine))

\* C13, amended: for every body whose text, after the tags are stripped and the
\* entities unescaped, contains the Changes marker, the extractor returns the span
\* after the first marker, up to the first following Test marker or the end, as its
\* lines in order, each line without its leading and trailing whitespace, without
\* the lines that are blank and the lines that start with '<!--' or end with '-->'.
C13_ReturnsSpanLinesTrimmed ==
    \A k \in ExtractorCalls :
        Contains(ChangesMarker, Processed(pr_calls[k].body)) =>
            LET lines == LinesOf(SpanOf(Processed(pr_calls[k].body)))
                kept == SelectSeq(lines, IsKeptLine)
            IN  /\ pr_calls[k].returned = PyJoin(<<"\n">>, [j \in 1..Len(kept) |-> TrimOf(kept[j])])
                /\ changelog_rows[k].Description = pr_calls[k].returned

C13_Witness ==
    \E k \in ExtractorCalls :
        /\ Contains(ChangesMarker, Processed(pr_calls[k].body))
        /\ Contains(TestMarker, pr_calls[k].body)
        /\ Len(LinesOf(SpanOf(Processed(pr_calls[k].body)))) >= 4
        /\ pr_calls[k].returned = <<"a">>
        /\ pr_calls[k].returned # SpanOf(Processed(pr_calls[k].body))

\* C14, as stated: for every body that does not contain the Changes marker, the
\* empty and the missing body included, the extractor returns "" and raises nothing.
C14_NoMarkerInBodyReturnsEmpty ==
    /\ exc = "none"
    /\ \A k \in ExtractorCalls :
          ~Contains(ChangesMarker, pr_calls[k].body) => pr_calls[k].returned = <<>>

\* C14, amended: for every body whose text, after the tags are stripped and the
\* entities unescaped, does not contain the Changes marker, the empty and the
\* missing body included, the extractor returns "" and raises nothing.
C14_NoMarkerInTextReturnsEmpty ==
    /\ exc = "none"
    /\ \A k \in ExtractorCalls :
          ~Contains(ChangesMarker, Processed(pr_calls[k].body)) =>
              /\ pr_calls[k].returned = <<>>
              /\ changelog_rows[k].Description = <<>>

C14_Witness ==
    \E k \in ExtractorCalls :
        /\ pr_calls[k].body # <<>>
        /\ Contains(TestMarker, pr_calls[k].body)
        /\ Contains(<<"a">>, pr_calls[k].body)
        /\ ~Contains(ChangesMarker, Processed(pr_calls[k].body))
        /\ pr_calls[k].returned = <<>>
        /\ pc = "done"
        /\ result = "True"

C16_OneRecordPerPrInOrder ==
    /\ Len(changelog_rows) <= Len(all_prs)
    /\ \A k \in 1..Len(changelog_rows) :
          /\ changelog_rows[k].ID = all_prs[k].number
          /\ changelog_rows[k].Title = all_prs[k].title
          /\ changelog_rows[k].URL = all_prs[k].html_url
          /\ pr_calls[k].id = all_prs[k].number
          /\ changelog_rows[k].Description = pr_calls[k].returned
          /\ changelog_rows[k].Ranking = <<>>
    /\ Has(stages, "records") =>
          /\ Len(changelog_rows) = Len(all_prs)
          /\ Has(log, "saved") =>
                /\ Len(file[1].rows) = Len(all_prs)
                /\ \A k \in 1..Len(all_prs) :
                      /\ file[1].rows[k] = changelog_rows[k]
                      /\ file[1].rows[k].Ranking = <<>>

C16_Witness ==
    /\ Has(stages, "records")
    /\ Has(log, "saved")
    /\ Len(all_prs) = 2
    /\ all_prs[1].number # all_prs[2].number
    /\ file[1].rows[1].ID = all_prs[1].number
    /\ file[1].rows[2].ID = all_prs[2].number
    /\ file[1].rows[1].Description # <<>>
    /\ file[1].rows[2].Description = <<>>
    /\ pr_calls[1].n403 > 0

(***************************************************************************)
(* The specification of the label filter alone: the run collects one PR    *)
(* that carries any list of up to MaxLabels labels.                        *)
(***************************************************************************)
\* label names: the plugin label in three casings, a longer name that begins with
\* it, and a name in two casings
LabelNames ==
    {PluginLabel,
     <<"P", "l", "u", "g", "i", "n", ":", " ",
       "W", "o", "o", "C", "o", "m", "m", "e", "r", "c", "e">>,
     <<"P", "L", "U", "G", "I", "N", ":", " ",
       "W", "O", "O", "C", "O", "M", "M", "E", "R", "C", "E">>,
     PluginLabel \o <<" ", "b">>,
     <<"B", "u", "g">>,
     <<"b", "u", "g">>}

InitLabels ==
    /\ InitWith({"main"}, {<<"9">>}, {TRUE}, {<<>>}, {<<Milestone(<<"9">>, 1)>>})
    /\ \E names \in SeqsUpTo(LabelNames, MaxLabels) :
          pages = <<[Page(1, 1, <<TRUE>>, "next_first") EXCEPT
                        !.issues = <<Issue(11, TRUE,
                                           [k \in 1..Len(names) |-> Label(names[k])])>>]>>
    /\ StartWith({None}, QuietEnv(<<>>))
SpecLabels == InitLabels /\ [][NextPrs]_vars

\* the two names are the same up to the case of their letters
SameIgnoringCase(a, b) ==
    /\ Len(a) = Len(b)
    /\ \A k \in 1..Len(a) :
          \/ a[k] = b[k]
          \/ \E j \in 1..26 : {a[k], b[k]} = {UpperLetters[j], LowerLetters[j]}
IsNotPluginLabel(name) == ~SameIgnoringCase(name, PluginLabel)

\* C17: the Labels field of a record is the names of the PR's labels, without those
\* that are "plugin: woocommerce" in any casing, in their original order and casing,
\* joined with ", ".
C17_LabelsWithoutPluginLabel ==
    \A k \in 1..Len(changelog_rows) :
        LET names == [j \in 1..Len(all_prs[k].labels) |-> all_prs[k].labels[j].name]
        IN  changelog_rows[k].Labels =
                PyJoin(<<",", " ">>, SelectSeq(names, IsNotPluginLabel))

C17_Witness ==
    /\ Has(log, "saved")
    /\ Len(all_prs[1].labels) = 3
    /\ all_prs[1].labels[1].name = <<"B", "u", "g">>
    /\ all_prs[1].labels[2].name # PluginLabel
    /\ SameIgnoringCase(all_prs[1].labels[2].name, PluginLabel)
    /\ all_prs[1].labels[3].name = <<"b", "u", "g">>
    /\ file[1].rows[1].Labels = <<"B", "u", "g", ",", " ", "b", "u", "g">>

(***************************************************************************)
(* The specification of the writer alone: save_changelog is called with    *)
(* any list of up to MaxRows records, on a file that is absent or was left *)
(* by an earlier call.                                                     *)
(***************************************************************************)
\* the files a call can find: none, the annotated file of an earlier run, a file
\* with the header alone, a file an earlier failed write left
PriorFiles ==
    {None, PriorFile,
     save_changelog(<<"9">>, <<>>, FALSE, "ok", None).file,
     save_changelog(<<"9">>, <<>>, FALSE, "write_error", None).file}

InitSave ==
    /\ InitWith({"save_changelog"}, {<<"9">>}, {TRUE}, {<<>>}, {<<>>})
    /\ pages = <<Page(1, 1, <<>>, "next_first")>>
    /\ StartWith(PriorFiles, AnyEnv)
SpecSave == InitSave /\ [][SaveChangelogCall]_vars

\* csv.reader over the characters of a file opened with newline='' (excel dialect,
\* not strict): a field that begins with a quote runs to its closing quote, the
\* first quote that is not the first of a doubled pair, and can hold commas and line
\* breaks; a record ends at "\r\n", "\n" or "\r".
\* the position of the first comma or line break at or after i, Len(s) + 1 if none
FieldEnd(s, i) ==
    LET ends == {k \in i..Len(s) : s[k] \in {",", "\n", "\r"}}
    IN  IF ends = {} THEN Len(s) + 1 ELSE SetMin(ends)

\* the number of consecutive quotes that end at position q, counted from position lo
QuoteRun(s, lo, q) ==
    q - SetMin({r \in lo..q : \A m \in r..q : s[m] = "\""}) + 1

\* s[lo..hi] with every doubled quote made one quote
UndoubleQuotes(s, lo, hi) ==
    LET kept == {k \in lo..hi : s[k] # "\"" \/ QuoteRun(s, lo, k) % 2 = 1}
        at(j) == CHOOSE k \in kept : Cardinality({m \in kept : m <= k}) = j
    IN  [j \in 1..Cardinality(kept) |-> s[at(j)]]

\* the field that starts at position i: its value, and the position of the comma or
\* line break that ends it
ParseField(s, i) ==
    IF s[i] = "\""
    THEN LET closers == {q \in (i + 1)..Len(s) :
                            /\ s[q] = "\""
                            /\ (q = Len(s) \/ s[q + 1] # "\"")
                            /\ QuoteRun(s, i + 1, q) % 2 = 1}
         IN  IF closers = {}
             THEN [value |-> UndoubleQuotes(s, i + 1, Len(s)), stop |-> Len(s) + 1]
             ELSE LET q == SetMin(closers)
                      e == FieldEnd(s, q + 1)
                  IN  [value |-> UndoubleQuotes(s, i + 1, q - 1) \o SubSeq(s, q + 1, e - 1),
                       stop |-> e]
    ELSE [value |-> SubSeq(s, i, FieldEnd(s, i) - 1), stop |-> FieldEnd(s, i)]

\* the position after the line break at position k
AfterLineBreak(s, k) ==
    IF s[k] = "\r" /\ k < Len(s) /\ s[k + 1] = "\n" THEN k + 2 ELSE k + 1

\* the records from position i on, each the list of its fields
RECURSIVE CsvRead(_, _, _, _, _)
CsvRead(s, i, state, fields, records) ==
    IF i > Len(s)
    THEN IF state = "start_record" THEN records ELSE records \o <<fields \o <<<<>>>>>>
    ELSE IF state = "start_record" /\ s[i] \in {"\n", "\r"}
    THEN CsvRead(s, AfterLineBreak(s, i), "start_record", <<>>, records \o <<<<>>>>)
    ELSE LET f == ParseField(s, i)
         IN  IF f.stop > Len(s) THEN records \o <<fields \o <<f.value>>>>
             ELSE IF s[f.stop] = ","
             THEN CsvRead(s, f.stop + 1, "start_field", fields \o <<f.value>>, records)
             ELSE CsvRead(s, AfterLineBreak(s, f.stop), "start_record", <<>>,
                          records \o <<fields \o <<f.value>>>>)

\* csv.DictReader: the first record is the header, the empty records are skipped
DictRead(text) ==
    LET records == CsvRead(text, 1, "start_record", <<>>, <<>>)
    IN  IF records = <<>> THEN [header |-> <<>>, rows |-> <<>>]
        ELSE [header |-> records[1],
              rows |-> SelectSeq(Tail(records), LAMBDA r : r # <<>>)]

\* int(text) of a text of decimal digits; -1 for any other text
RECURSIVE IntOf(_)
IntOf(t) ==
    IF t = <<>> \/ \E k \in 1..Len(t) : \A d \in 0..9 : ToString(d) # t[k] THEN 0 - 1
    ELSE LET last == CHOOSE d \in 0..9 : ToString(d) = t[Len(t)]
         IN  IF Len(t) = 1 THEN last ELSE 10 * IntOf(SubSeq(t, 1, Len(t) - 1)) + last

\* the call of save_changelog wrote the file
Saved == pc = "done" /\ Has(log, "saved")

\* cell j of the record read back is field Fieldnames[j] of the record written
SameFields(cells, row) ==
    /\ Len(cells) = 6
    /\ IntOf(cells[1]) = row.ID
    /\ cells[2] = row.Title
    /\ cells[3] = row.Labels
    /\ cells[4] = row.URL
    /\ cells[5] = row.Description
    /\ cells[6] = row.Ranking

\* C18: a call of save_changelog that writes the file replaces it: whatever an earlier
\* call left, the file holds the header and exactly the rows of this call, and no
\* row and no Ranking of the earlier file.
C18_WriteReplacesTheFile ==
    Saved =>
        /\ file[1].header = Fieldnames
        /\ file[1].rows = changelog_rows
        /\ Len(DictRead(file[1].text).rows) = Len(changelog_rows)
        /\ \A k \in 1..Len(file[1].text) : file[1].text[k] \notin {"h", "o"}
        /\ \A k \in 1..Len(DictRead(file[1].text).rows) :
              \A j \in 1..Len(PriorRows) :
                 ~SameFields(DictRead(file[1].text).rows[k], PriorRows[j])

C18_Witness ==
    /\ Saved
    /\ file_before = PriorFile
    /\ Len(DictRead(file_before[1].text).rows) = 3
    /\ Len(changelog_rows) = 1
    /\ Len(DictRead(file[1].text).rows) = 1
    /\ DictRead(file[1].text).rows[1][6] = <<>>

\* C19: writing N >= 0 records and reading the file back gives the header ID, Title,
\* Labels, URL, Description, Ranking and then N rows, in the written order, each with
\* the field values that were written.
C19_RoundTrip ==
    Saved =>
        LET table == DictRead(file[1].text)
        IN  /\ table.header = <<<<"ID">>, <<"Title">>, <<"Labels">>, <<"URL">>,
                                <<"Description">>, <<"Ranking">>>>
            /\ Len(table.rows) = Len(changelog_rows)
            /\ \A k \in 1..Len(changelog_rows) : SameFields(table.rows[k], changelog_rows[k])

C19_Witness ==
    /\ Saved
    /\ Len(changelog_rows) = 2
    /\ changelog_rows[1].ID = 12
    /\ changelog_rows[1].Description = <<"a", "\n", "b", "\r", "\n">>
    /\ changelog_rows[2].Description = <<"\"", "a", "\"", " ">>
    /\ DictRead(file[1].text).rows[1][5] = <<"a", "\n", "b", "\r", "\n">>
    /\ DictRead(file[1].text).rows[2][5] = <<"\"", "a", "\"", " ">>

\* C20: when the run was satisfied from the raw changelog text, the saved table has
\* exactly one record: its Description is the whole located section, its Title is
\* "Changelog for version " followed by the version, and its ID, Labels, URL and
\* Ranking are empty; the file read back gives that one row.
C20_TextSavedAsOneRecord ==
    SavedFromText =>
        LET title == <<"Changelog for version ">> \o version
            table == DictRead(file[1].text)
        IN  /\ Len(file[1].rows) = 1
            /\ file[1].rows[1].Title = title
            /\ file[1].rows[1].ID = <<>>
            /\ file[1].rows[1].Labels = <<>>
            /\ file[1].rows[1].URL = <<>>
            /\ file[1].rows[1].Ranking = <<>>
            /\ IsTrimOf(file[1].rows[1].Description, RawSection(remote_changelog, version))
            /\ table.rows = <<<< <<>>, title, <<>>, <<>>, file[1].rows[1].Description, <<>> >>>>
            /\ writes = 1
            /\ ~ChainEntered

C20_Witness ==
    /\ SavedFromText
    /\ version = <<"9", "x">>
    /\ Len(file[1].rows[1].Description) >= 2
    /\ file[1].rows[1].Title = <<"Changelog for version ", "9", "x">>
    /\ DictRead(file[1].text).rows[1][5] = RawSection(remote_changelog, version)

(***************************************************************************)
(* update-release-pr-spreadsheet.py: get_all_release_notes                 *)
(***************************************************************************)
\* the version format_release_note finds in a release post: digits and dots, with at
\* least a major and a minor number, or "Unknown"
Unknown == <<"Unknown">>

\* '.'.join(version.split('.')[:2])
major_minor(v) ==
    LET parts == PySplit(v, <<".">>)
    IN  PyJoin(<<".">>, SubSeq(parts, 1, IF Len(parts) < 2 THEN Len(parts) ELSE 2))

\* [int(n) for n in x[0].split('.')]
SortKey(mm) ==
    LET parts == PySplit(mm, <<".">>)
    IN  [k \in 1..Len(parts) |-> IntOf(parts[k])]

\* Python's < on lists of ints
RECURSIVE ListLess(_, _)
ListLess(a, b) ==
    IF b = <<>> THEN FALSE
    ELSE IF a = <<>> THEN TRUE
    ELSE IF a[1] # b[1] THEN a[1] < b[1]
    ELSE ListLess(Tail(a), Tail(b))

\* ord(c) of a dot or a digit
Ord(c) == IF c = "." THEN 46 ELSE 48 + IntOf(<<c>>)

\* Python's < on strings of dots and digits: the first differing character decides,
\* and a proper prefix is the lesser
RECURSIVE StrLess(_, _)
StrLess(a, b) ==
    IF b = <<>> THEN FALSE
    ELSE IF a = <<>> THEN TRUE
    ELSE IF a[1] # b[1] THEN Ord(a[1]) < Ord(b[1])
    ELSE StrLess(Tail(a), Tail(b))

\* list.sort(key=..., reverse=True): descending keys, equal keys in their first order
RECURSIVE SortNewestFirst(_)
SortNewestFirst(notes) ==
    IF notes = <<>> THEN <<>>
    ELSE LET rest == SortNewestFirst(SubSeq(notes, 1, Len(notes) - 1))
             x == notes[Len(notes)]
             before == {k \in 1..Len(rest) : ListLess(SortKey(rest[k].version), SortKey(x.version))}
             at == IF before = {} THEN Len(rest) + 1 ELSE SetMin(before)
         IN  SubSeq(rest, 1, at - 1) \o <<x>> \o SubSeq(rest, at, Len(rest))

\* notes_with_versions after the loop over the files: the posts with a version
NotesWithVersions(posts) ==
    LET known == SelectSeq([k \in 1..Len(posts) |-> [name |-> k, version |-> posts[k]]],
                           LAMBDA f : f.version # Unknown)
    IN  [k \in 1..Len(known) |-> [known[k] EXCEPT !.version = major_minor(@)]]

\* get_all_release_notes(current_version, max_versions) over the posts of
\* release-posts/: None, or Some(the notes that are joined into the returned text)
get_all_release_notes(current_version, max_versions, posts) ==
    IF posts = <<>> \/ NotesWithVersions(posts) = <<>> THEN None
    ELSE LET sorted == SortNewestFirst(NotesWithVersions(posts))
             previous == IF current_version # <<>>
                         THEN SelectSeq(sorted, LAMBDA n :
                                  StrLess(n.version, major_minor(current_version)))
                         ELSE sorted
         IN  Some(SubSeq(previous, 1,
                         IF Len(previous) < max_versions THEN Len(previous)
                         ELSE max_versions))

GetAllReleaseNotesCall ==
    /\ pc = "get_all_release_notes"
    /\ \E max_versions \in {1, DefaultMaxVersions} :
          orch' = [orch EXCEPT
                      !.pc = "returned",
                      !.size = max_versions,
                      !.release_notes = get_all_release_notes(version, max_versions,
                                                              disk.posts)]
    /\ pc' = "done"
    /\ UNCHANGED <<entry, version, token, remote_changelog, milestones, pages, env,
                   file_before, disk, file, stages, collector, enricher, writes, log,
                   outcome>>

(***************************************************************************)
(* The specification of get_all_release_notes alone: release-posts/ holds  *)
(* any list of up to MaxNotes posts, and the function is called with a     *)
(* version or with none.                                                   *)
(***************************************************************************)
NoteVersions ==
    {<<"9", ".", "9">>, <<"9", ".", "1", "0">>, <<"1", "0", ".", "0">>,
     <<"9", ".", "9", ".", "1">>, Unknown}
CurrentVersions ==
    {<<>>, <<"9", ".", "9">>, <<"9", ".", "1", "0">>, <<"1", "0", ".", "1", ".", "0">>}

InitNotes ==
    /\ InitWith({"get_all_release_notes"}, CurrentVersions, {TRUE}, {<<>>}, {<<>>})
    /\ pages = <<Page(1, 1, <<>>, "next_first")>>
    /\ file = None
    /\ file_before = None
    /\ env = AnyEnv
    /\ \E posts \in SeqsUpTo(NoteVersions, MaxNotes) : disk = [txt |-> {}, posts |-> posts]
    /\ orch = [OrchIdle EXCEPT !.pc = "called"]
SpecNotes == InitNotes /\ [][GetAllReleaseNotesCall]_vars

\* the posts of release-posts/ whose major.minor is numerically lower than the
\* major.minor of the version the function was called with
NumericKey(v) ==
    LET parts == PySplit(v, <<".">>)
    IN  100 * IntOf(parts[1]) + IntOf(parts[2])
PreviousPosts ==
    {k \in 1..Len(disk.posts) :
        /\ disk.posts[k] # Unknown
        /\ NumericKey(disk.posts[k]) < NumericKey(version)}
NotesReturned == orch.pc = "returned" /\ version # <<>> /\ orch.release_notes # None

\* C22: when a current version is given, every returned note is of a release whose
\* major.minor is numerically lower than the current one; the returned notes are
\* the highest such releases, in descending numeric order; and they are at most
\* max_versions.
C22_ReturnsHighestPreviousVersions ==
    NotesReturned =>
        LET notes == orch.release_notes[1]
        IN  /\ Len(notes) <= orch.size
            /\ \A k \in 1..Len(notes) : notes[k].name \in PreviousPosts
            /\ \A k \in 1..(Len(notes) - 1) :
                  NumericKey(notes[k].version) >= NumericKey(notes[k + 1].version)
            /\ Len(notes) = orch.size \/ Len(notes) = Cardinality(PreviousPosts)
            /\ \A p \in PreviousPosts :
                  \/ \E k \in 1..Len(notes) : notes[k].name = p
                  \/ \A k \in 1..Len(notes) :
                        NumericKey(disk.posts[p]) <= NumericKey(notes[k].version)

(***************************************************************************)
(* update-release-pr-spreadsheet.py: chunk_changelog                       *)
(***************************************************************************)
Newline == <<"\n">>

\* the for loop of chunk_changelog over the lines that are left, and the flush after it
RECURSIVE ChunkLoop(_, _, _, _, _)
ChunkLoop(prs, chunks, current_chunk, current_size, chunk_size) ==
    IF prs = <<>>
    THEN IF current_chunk # <<>> THEN Append(chunks, PyJoin(Newline, current_chunk))
         ELSE chunks
    ELSE LET pr == Head(prs)
             pr_size == Len(pr)
         IN  IF current_size + pr_size > chunk_size /\ current_chunk # <<>>
             THEN ChunkLoop(Tail(prs), Append(chunks, PyJoin(Newline, current_chunk)),
                            <<pr>>, pr_size, chunk_size)
             ELSE ChunkLoop(Tail(prs), chunks, Append(current_chunk, pr),
                            current_size + pr_size, chunk_size)

\* a chunker whose chunks may hold one character more than chunk_size
chunk_changelog_one_over(changelog, chunk_size) ==
    ChunkLoop(PySplit(changelog, Newline), <<>>, <<>>, 0, chunk_size + 1)

chunk_changelog(changelog, chunk_size) ==
    ChunkLoop(PySplit(changelog, Newline), <<>>, <<>>, 0, chunk_size)

(***************************************************************************)
(* update-release-pr-spreadsheet.py: get_changelog_content and main        *)
(***************************************************************************)
\* fetch-changelog.py, save_changelog: the file it writes for a version
ChangelogFile(v) == <<"changelogs/">> \o v \o <<".csv">>

\* str.rstrip(chars)
PyRStripChars(s, chars) ==
    LET keep == {i \in 1..Len(s) : s[i] \notin chars}
    IN  IF keep = {} THEN <<>> ELSE SubSeq(s, 1, SetMax(keep))

TxtPath(stem) == <<"changelogs/">> \o stem \o <<".txt">>
possible_paths(v) ==
    <<TxtPath(v), TxtPath(v \o <<".", "0">>), TxtPath(PyRStripChars(v, {".", "0"}))>>

\* path.read_text() of a text file an earlier, manual step left under changelogs/
ReadText(path) == <<"-", " ", "o", "l", "d", "\n", "-", " ", "f", "i", "x">>

\* get_changelog_content(version) where txt is the set of the .txt paths that
\* exist: the paths whose existence was tested, and the returned text or None
get_changelog_content(v, txt) ==
    LET found == {k \in 1..Len(possible_paths(v)) : possible_paths(v)[k] \in txt}
    IN  IF found = {}
        THEN [tried |-> possible_paths(v), content |-> None]
        ELSE [tried |-> SubSeq(possible_paths(v), 1, SetMin(found)),
              content |-> Some(ReadText(possible_paths(v)[SetMin(found)]))]

\* main, step 3: the contents are looked up and handed to the analysis
ContentStep(o, v, d) ==
    LET release_notes == get_all_release_notes(v, DefaultMaxVersions, d.posts)
        looked == get_changelog_content(v, d.txt)
        got == [o EXCEPT !.release_notes = release_notes,
                         !.changelog = looked.content,
                         !.tried = looked.tried,
                         !.log = Append(@, "starting_content_analysis")]
    IN  IF ~TruthyStr(release_notes) \/ ~TruthyStr(looked.content)
        THEN [got EXCEPT !.pc = "stopped",
                         !.log = Append(@, "required_content_not_found")]
        ELSE [got EXCEPT !.pc = "analysis",
                         !.chunks = chunk_changelog(looked.content[1], DefaultChunkSize)]

\* main up to the start of the fetch-changelog.py process, or to its end when
\* --fetch-changelog is not given
OrchStart ==
    /\ pc = "orchestrator"
    /\ IF orch.fetch_changelog
       THEN /\ orch' = [orch EXCEPT !.pc = "stage", !.log = <<"fetching_changelog">>]
            /\ pc' = "fetch_prs"
       ELSE /\ orch' = ContentStep([orch EXCEPT !.log = <<"skipping_fetch_changelog">>],
                                   version, disk)
            /\ pc' = "done"
    /\ UNCHANGED <<entry, version, token, remote_changelog, milestones, pages, env,
                   file_before, disk, file, stages, collector, enricher, writes, log,
                   outcome>>

\* main from the end of the fetch-changelog.py process: run_script is True when
\* the process exited with 0
OrchContinue ==
    /\ entry = "orchestrator"
    /\ pc = "done"
    /\ orch.pc = "stage"
    /\ IF exit_code # Some(0)
       THEN orch' = [orch EXCEPT !.pc = "stopped",
                                 !.log = Append(@, "failed_to_fetch_changelog")]
       ELSE orch' = ContentStep(orch, version, disk)
    /\ UNCHANGED <<entry, version, token, remote_changelog, milestones, pages, env,
                   file_before, disk, file, pc, stages, collector, enricher, writes, log,
                   outcome>>

(***************************************************************************)
(* The specification of an orchestrator run: with or without               *)
(* --fetch-changelog, on a disk that holds release posts or none, and no   *)
(* text changelog or one that an earlier manual step left.                 *)
(***************************************************************************)
OrchVersions == {<<"9", ".", "8">>, <<"9", ".", "0">>, <<"9", ".", "1", "0">>}
OrchPosts == {<<>>, <<<<"9", ".", "7">>, <<"9", ".", "6", ".", "0">>>>}
OrchTexts == {{}, {TxtPath(<<"9", ".", "8">>)}, {TxtPath(<<"9">>)}}

InitOrchestrate ==
    /\ InitWith({"orchestrator"}, OrchVersions, {TRUE}, {<<>>},
                {<<Milestone(v, 1)>> : v \in OrchVersions})
    /\ pages \in {c \in SampleChains : Len(c) = 1}
    /\ file = None
    /\ file_before = None
    /\ env = AnyEnv
    /\ \E posts \in OrchPosts, txt \in OrchTexts : disk = [txt |-> txt, posts |-> posts]
    /\ \E f \in BOOLEAN : orch = [OrchIdle EXCEPT !.pc = "start", !.fetch_changelog = f]

NextOrchestrate ==
    \/ OrchStart
    \/ FetchPrsMilestone
    \/ FetchPage
    \/ FetchPrDescription
    \/ OrchContinue
SpecOrchestrate == InitOrchestrate /\ [][NextOrchestrate]_vars

\* the run was started with --fetch-changelog, its fetch stage exited with 0 after
\* writing the file of the version, release notes were found, and main is past step 3
FetchedAndLookedUp ==
    /\ entry = "orchestrator"
    /\ orch.fetch_changelog
    /\ orch.pc \in {"stopped", "analysis"}
    /\ exit_code = Some(0)
    /\ file # None
    /\ Has(log, "saved")
    /\ TruthyStr(orch.release_notes)

\* C21: in an orchestrator run with --fetch-changelog whose fetch stage succeeds,
\* the file the stage wrote for the version is among the paths get_changelog_content
\* reads, the analysis receives the text of that file, and the run does not stop
\* with "required content not found".
C21_AnalysisReceivesFetchedChangelog ==
    FetchedAndLookedUp =>
        /\ \E k \in 1..Len(orch.tried) : orch.tried[k] = ChangelogFile(version)
        /\ orch.changelog = Some(file[1].text)
        /\ ~Has(orch.log, "required_content_not_found")

(***************************************************************************)
(* The specification of chunk_changelog alone: any text of up to           *)
(* MaxChangelogLen characters and line breaks, and any chunk size up to    *)
(* MaxChunkSize.                                                           *)
(***************************************************************************)
ChangelogChars == {"a", "b", "\n"}

ChunkChangelogCall ==
    /\ pc = "chunk_changelog"
    /\ \E chunk_size \in 0..MaxChunkSize :
          orch' = [orch EXCEPT
                      !.pc = "returned",
                      !.size = chunk_size,
                      !.chunks = chunk_changelog(orch.changelog[1], chunk_size)]
    /\ pc' = "done"
    /\ UNCHANGED <<entry, version, token, remote_changelog, milestones, pages, env,
                   file_before, disk, file, stages, collector, enricher, writes, log,
                   outcome>>

InitChunk ==
    /\ InitWith({"chunk_changelog"}, {<<"9", ".", "8">>}, {TRUE}, {<<>>}, {<<>>})
    /\ pages = <<Page(1, 1, <<>>, "next_first")>>
    /\ file = None
    /\ file_before = None
    /\ env = AnyEnv
    /\ disk = NoDisk
    /\ \E text \in SeqsUpTo(ChangelogChars, MaxChangelogLen) :
          orch = [OrchIdle EXCEPT !.pc = "called", !.changelog = Some(text)]
SpecChunk == InitChunk /\ [][ChunkChangelogCall]_vars

ChunksReturned == entry = "chunk_changelog" /\ orch.pc = "returned"
LinesOfChunk(k) == PySplit(orch.chunks[k], Newline)
RECURSIVE SumOfLengths(_)
SumOfLengths(lines) ==
    IF lines = <<>> THEN 0 ELSE Len(Head(lines)) + SumOfLengths(Tail(lines))

\* C23: chunk_changelog loses and reorders nothing and keeps the chunks small:
\* the chunks joined with a line break are the input, the lines of the chunks one
\* after the other are the lines of the input, and the line lengths of a chunk sum
\* to at most chunk_size unless the chunk is one line longer than chunk_size.
C23_ChunksAreTheInputAndFit ==
    ChunksReturned =>
        /\ PyJoin(Newline, orch.chunks) = orch.changelog[1]
        /\ Flatten([k \in 1..Len(orch.chunks) |-> LinesOfChunk(k)])
              = PySplit(orch.changelog[1], Newline)
        /\ \A k \in 1..Len(orch.chunks) :
              \/ SumOfLengths(LinesOfChunk(k)) <= orch.size
              \/ Len(LinesOfChunk(k)) = 1 /\ Len(orch.chunks[k]) > orch.size

\* a call returned several chunks: one of several lines that was closed because
\* the next line did not fit, and one of a single line longer than chunk_size
C23_Witness ==
    /\ ChunksReturned
    /\ orch.size > 0
    /\ Len(orch.chunks) >= 2
    /\ \E k \in 1..Len(orch.chunks) :
          Len(LinesOfChunk(k)) >= 2 /\ SumOfLengths(LinesOfChunk(k)) > 0
    /\ \E k \in 1..Len(orch.chunks) :
          Len(LinesOfChunk(k)) = 1 /\ Len(orch.chunks[k]) > orch.size

====
